---------------------------- MODULE Spec2Model ----------------------------
(***************************************************************************)
(* Model of google_places_lookup.py: GooglePlacesClient.lookup_business    *)
(* (search_text -> find_best_match -> get_place_details -> review parsing) *)
(* the loop of main() that collects its results, and                       *)
(* write_markdown_output, which reports them.                              *)
(*                                                                         *)
(* Conventions.  A Python str that the code inspects character by          *)
(* character (queries, display names) is a sequence of one-character       *)
(* strings; a str that is only carried around (ids, addresses, urls,       *)
(* error texts) is a TLA+ string.  An optional value (None, or a dict key  *)
(* that may be missing) is a sequence of length 0 or 1: <<>> is            *)
(* None/missing, <<v>> is present with value v.  A float score is an       *)
(* exact reduced fraction <<num, den>>.                                    *)
(***************************************************************************)
EXTENDS Integers, Sequences, FiniteSets, TLC

VARIABLES
    queries,           \* main: the list of queries
    include_reviews,   \* main: not args.no_reviews
    i,                 \* main: 1-based position of the query being processed
    businesses,        \* main: the result list
    all_reviews,       \* main: dict display name -> review list
    lookups,           \* per finished call of lookup_business, in order: the
                       \* query it was given and the review list it returned
    markdown,          \* the file written by write_markdown_output, once written
    pc,                \* position in lookup_business / main
    search_response,   \* lookup_business local (dropped once all_places is dead)
    best_match,        \* lookup_business local
    similarity_score,  \* lookup_business local
    candidate_scores,  \* find_best_match: the similarity logged per candidate (line 182)
    details_response,  \* lookup_business local
    business_info,     \* lookup_business: the BusinessInfo it returns
    reviews,           \* lookup_business: the review list it returns
    calls,             \* the remote calls made by the current lookup_business, in order
    raised             \* an exception escaped lookup_business

vars == <<queries, include_reviews, i, businesses, all_reviews, lookups, markdown, pc,
          search_response, best_match, similarity_score, candidate_scores,
          details_response, business_info, reviews, calls, raised>>

mainVars == <<queries, include_reviews, i, businesses, all_reviews, lookups, markdown>>

-----------------------------------------------------------------------------
(* Bounds of the model *)

MaxCands == 2      \* longest candidate list of a search response
MaxReviews == 2    \* longest raw review list of a detail response
MaxNameLen == 2    \* longest generated display name
MaxQueries == 2    \* longest batch of queries

-----------------------------------------------------------------------------
(* Optional values *)

None == <<>>
Some(v) == <<v>>
IsSome(o) == Len(o) = 1
Get(o, default) == IF Len(o) = 1 THEN o[1] ELSE default

-----------------------------------------------------------------------------
(* Python str operations on sequences of characters *)

Upper == [c \in {"a", "b", "c"} |-> CASE c = "a" -> "A" [] c = "b" -> "B" [] c = "c" -> "C"]

LowerChar(c) ==
    IF \E l \in DOMAIN Upper : Upper[l] = c
    THEN CHOOSE l \in DOMAIN Upper : Upper[l] = c
    ELSE c

\* str.lower()
Lower(s) == [k \in 1..Len(s) |-> LowerChar(s[k])]

\* s[lo:hi], 0-based and half-open as in Python
Slice(s, lo, hi) == [k \in 1..(hi - lo) |-> s[lo + k]]

\* the 0-based positions at which sub occurs in s
Occurrences(sub, s) ==
    {p \in 0..(Len(s) - Len(sub)) : Slice(s, p, p + Len(sub)) = sub}

\* sub in s
Contains(sub, s) == Occurrences(sub, s) # {}

SetMin(S) == CHOOSE x \in S : \A y \in S : x <= y
SetMax(S) == CHOOSE x \in S : \A y \in S : x >= y

\* s.split(sep)[0], for a separator that occurs in s
SplitFirst(s, sep) == Slice(s, 0, SetMin(Occurrences(sep, s)))

\* str.strip(): the only whitespace of the model's alphabet is the space
Strip(s) ==
    LET inked == {k \in 1..Len(s) : s[k] # " "}
    IN  IF inked = {} THEN <<>> ELSE Slice(s, SetMin(inked) - 1, SetMax(inked))

\* str.split(): the maximal runs of non-space characters, in order
RECURSIVE Words(_)
Words(s) ==
    LET t == Strip(s)
        spaces == {k \in 1..Len(t) : t[k] = " "}
    IN  IF t = <<>> THEN <<>>
        ELSE IF spaces = {} THEN <<t>>
        ELSE <<Slice(t, 0, SetMin(spaces) - 1)>> \o Words(Slice(t, SetMin(spaces), Len(t)))

\* ' '.join(ws)
RECURSIVE JoinSpace(_)
JoinSpace(ws) ==
    IF Len(ws) = 0 THEN <<>>
    ELSE IF Len(ws) = 1 THEN ws[1]
    ELSE ws[1] \o <<" ">> \o JoinSpace(Tail(ws))

\* [w for w in ws if w not in drop]
RECURSIVE Without(_, _)
Without(ws, drop) ==
    IF ws = <<>> THEN <<>>
    ELSE (IF Head(ws) \in drop THEN <<>> ELSE <<Head(ws)>>) \o Without(Tail(ws), drop)

-----------------------------------------------------------------------------
(* Scores: exact fractions <<num, den>> in lowest terms, den > 0 *)

RECURSIVE GCD(_, _)
GCD(a, b) == IF b = 0 THEN a ELSE GCD(b, a % b)

Frac(n, d) == LET g == GCD(n, d) IN <<n \div g, d \div g>>

ScoreLess(x, y) == x[1] * y[2] < y[1] * x[2]

ScoreMax(x, y) == IF ScoreLess(x, y) THEN y ELSE x

Zero == Frac(0, 1)
One == Frac(1, 1)
Boost == Frac(8, 10)        \* 0.8, line 180
LowBand == Frac(5, 10)      \* 0.5, line 193
VerifyBand == Frac(7, 10)   \* 0.7, line 195

-----------------------------------------------------------------------------
(* difflib.SequenceMatcher(None, a, b).ratio(), as called on line 176.     *)
(* No junk function is given and the automatic junk heuristic only applies *)
(* to sequences of 200 or more elements, so every element takes part.      *)

\* the common blocks <<ia, jb, k>> of a[alo:ahi] and b[blo:bhi], k >= 1
Blocks(a, b, alo, ahi, blo, bhi) ==
    {t \in (alo..(ahi - 1)) \X (blo..(bhi - 1)) \X (1..(ahi - alo)) :
        /\ t[1] + t[3] <= ahi
        /\ t[2] + t[3] <= bhi
        /\ \A d \in 0..(t[3] - 1) : a[t[1] + d + 1] = b[t[2] + d + 1]}

\* find_longest_match: the longest block; of those the one starting earliest
\* in a; of those the one starting earliest in b
LongestMatch(a, b, alo, ahi, blo, bhi) ==
    LET bs == Blocks(a, b, alo, ahi, blo, bhi)
    IN  CHOOSE t \in bs : \A u \in bs :
            \/ t[3] > u[3]
            \/ t[3] = u[3] /\ t[1] < u[1]
            \/ t[3] = u[3] /\ t[1] = u[1] /\ t[2] <= u[2]

\* get_matching_blocks: the total size of the blocks found by splitting
\* around the longest match and recursing to its left and to its right
RECURSIVE Matches(_, _, _, _, _, _)
Matches(a, b, alo, ahi, blo, bhi) ==
    IF Blocks(a, b, alo, ahi, blo, bhi) = {} THEN 0
    ELSE LET m == LongestMatch(a, b, alo, ahi, blo, bhi)
         IN  m[3]
             + (IF alo < m[1] /\ blo < m[2]
                THEN Matches(a, b, alo, m[1], blo, m[2]) ELSE 0)
             + (IF m[1] + m[3] < ahi /\ m[2] + m[3] < bhi
                THEN Matches(a, b, m[1] + m[3], ahi, m[2] + m[3], bhi) ELSE 0)

\* ratio(): 2.0 * matches / length, and 1.0 when both sequences are empty
Ratio(a, b) ==
    IF Len(a) + Len(b) = 0 THEN One
    ELSE Frac(2 * Matches(a, b, 0, Len(a), 0, Len(b)), Len(a) + Len(b))

-----------------------------------------------------------------------------
(* find_best_match, lines 140-198 *)

\* a search candidate (one element of "places"): every key may be missing
\*   id: optional str; displayName: optional dict with an optional "text";
\*   formattedAddress: optional str
EmptyPlace == [id |-> None, displayName |-> None, formattedAddress |-> None]

\* Python truth value of a dict: false exactly for the empty dict
Truthy(d, empty) == d # empty

\* dict.get("displayName", {}).get("text", default)
DisplayText(d, default) == Get(Get(d.displayName, [text |-> None]).text, default)

SepIn == <<" ", "i", "n", " ">>
SepComma == <<",", " ">>

location_words ==
    { <<"c", "i", "t", "y">>, <<"u", "t">>, <<"u", "t", "a", "h">>, <<"s", "l", "c">>,
      <<"s", "a", "l", "t", " ", "l", "a", "k", "e", " ", "c", "i", "t", "y">> }

\* lines 156-165: the business name taken from the query
ExtractBusinessName(query) ==
    LET query_lower == Lower(query)
    IN  IF Contains(SepIn, query_lower) THEN Strip(SplitFirst(query_lower, SepIn))
        ELSE IF Contains(SepComma, query_lower) THEN Strip(SplitFirst(query_lower, SepComma))
        ELSE Strip(JoinSpace(Without(Words(query_lower), location_words)))

\* line 173
PlaceName(place) == Lower(DisplayText(place, <<>>))

\* Similarity with a fault: the substring boost is dropped
SimilarityNoBoost(business_name, place_name) == Ratio(business_name, place_name)

\* lines 176-180: the score of one candidate
Similarity(business_name, place_name) ==
    LET similarity == Ratio(business_name, place_name)
    IN  IF Contains(business_name, place_name)
        THEN ScoreMax(similarity, Boost)
        ELSE similarity

\* line 184: similarity > best_score
Better(similarity, best_score) == ScoreLess(best_score, similarity)

\* lines 169-186: the loop over the candidates, from candidate k on
RECURSIVE BestLoop(_, _, _, _, _, _)
BestLoop(business_name, search_results, k, match, score, logged) ==
    IF k > Len(search_results)
    THEN [best_match |-> match, best_score |-> score, scores |-> logged]
    ELSE LET place == search_results[k]
             similarity == Similarity(business_name, PlaceName(place))
         IN  IF Better(similarity, score)
             THEN BestLoop(business_name, search_results, k + 1, Some(place),
                           similarity, Append(logged, similarity))
             ELSE BestLoop(business_name, search_results, k + 1, match,
                           score, Append(logged, similarity))

\* find_best_match(query, search_results): best_match is None (<<>>) or the
\* chosen place; scores are the similarities in candidate order
FindBestMatch(query, search_results) ==
    IF search_results = <<>>
    THEN [best_match |-> None, best_score |-> Zero, scores |-> <<>>]
    ELSE BestLoop(ExtractBusinessName(query), search_results, 1, None, Zero, <<>>)

\* lines 188-196: the warning logged for the chosen candidate
Warning(match, score) ==
    IF ~(IsSome(match) /\ Truthy(match[1], EmptyPlace)) THEN "none"
    ELSE IF ScoreLess(score, LowBand) THEN "low"
    ELSE IF ScoreLess(score, VerifyBand) THEN "verify"
    ELSE "none"

-----------------------------------------------------------------------------
(* lookup_business, lines 244-352: the records it returns *)

\* the dataclass BusinessInfo, lines 34-45; formatted_address, match_score
\* and error default to None
BusinessInfo(query, place_id, name, rating, user_ratings_total, maps_url, formatted_address, match_score, error) ==
    [query |-> query, place_id |-> place_id, name |-> name, rating |-> rating,
     user_ratings_total |-> user_ratings_total, maps_url |-> maps_url,
     formatted_address |-> formatted_address, match_score |-> match_score,
     error |-> error]

Unknown == <<"U", "n", "k", "n", "o", "w", "n">>
Anonymous == "Anonymous"

\* NoMatchRecord with a fault: the error is left unset
NoMatchRecordNoError(query) ==
    BusinessInfo(query, "", <<>>, None, None, "", None, None, None)

\* lines 260-268
NoMatchRecord(query) ==
    BusinessInfo(query, "", <<>>, None, None, "", None, None, Some("No match found"))

\* lines 278-286
NoGoodMatchRecord(query) ==
    BusinessInfo(query, "", <<>>, None, None, "", None, None, Some("No good match found"))

\* DetailsFailedRecord with a fault: what the match step learnt is discarded
DetailsFailedRecordBlank(query, place_id, name, formatted_address) ==
    BusinessInfo(query, "", <<>>, None, None, "", None, None,
                 Some("Could not retrieve details"))

\* DetailsFailedRecord with a fault: a map link is made up from the place id
DetailsFailedRecordWithUrl(query, place_id, name, formatted_address) ==
    BusinessInfo(query, place_id, name, None, None, place_id, Some(formatted_address),
                 None, Some("Could not retrieve details"))

\* DetailsFailedRecord with a fault: the failure is not reported
DetailsFailedRecordNoError(query, place_id, name, formatted_address) ==
    BusinessInfo(query, place_id, name, None, None, "", Some(formatted_address),
                 None, None)

\* lines 300-309
DetailsFailedRecord(query, place_id, name, formatted_address) ==
    BusinessInfo(query, place_id, name, None, None, "", Some(formatted_address),
                 None, Some("Could not retrieve details"))

\* a detail response: every key may be missing
EmptyDetails ==
    [displayName |-> None, rating |-> None, userRatingCount |-> None,
     googleMapsUri |-> None, formattedAddress |-> None, reviews |-> None]

\* SuccessRecord with a fault: the search step's name and address win over the
\* detail response's
SuccessRecordSearchFirst(query, place_id, name, formatted_address, details, score) ==
    BusinessInfo(query, place_id, name, details.rating, details.userRatingCount,
                 Get(details.googleMapsUri, ""), Some(formatted_address),
                 Some(score), None)

\* lines 312-321
SuccessRecord(query, place_id, name, formatted_address, details, score) ==
    BusinessInfo(query, place_id,
                 DisplayText(details, name),
                 details.rating,
                 details.userRatingCount,
                 Get(details.googleMapsUri, ""),
                 Some(Get(details.formattedAddress, formatted_address)),
                 Some(score),
                 None)

-----------------------------------------------------------------------------
(* Review parsing, lines 323-350 *)

\* a raw review: isDict is false for an entry that is no JSON object; the
\* nested authorAttribution, originalText and text values are records with
\* their own isDict
NotADict == [isDict |-> FALSE, value |-> None]
AsDict(v) == [isDict |-> TRUE, value |-> v]

\* the dataclass Review, lines 48-55
Review(author, rating, relative_time, text, publish_time) ==
    [author |-> author, rating |-> rating, relative_time |-> relative_time,
     text |-> text, publish_time |-> publish_time]

\* does the body of the try block (lines 328-347) raise for this entry?
ParseRaises(review_data) ==
    \/ ~review_data.isDict
    \/ IsSome(review_data.authorAttribution) /\ ~review_data.authorAttribution[1].isDict
    \/ IsSome(review_data.originalText) /\ ~review_data.originalText[1].isDict
    \/ /\ ~IsSome(review_data.originalText)
       /\ IsSome(review_data.text)
       /\ ~review_data.text[1].isDict

\* lines 333-337
ReviewText(review_data) ==
    IF IsSome(review_data.originalText) THEN Get(review_data.originalText[1].value, "")
    ELSE IF IsSome(review_data.text) THEN Get(review_data.text[1].value, "")
    ELSE ""

\* lines 328-347, for an entry that does not raise
ParseReview(review_data) ==
    Review(Get(Get(review_data.authorAttribution, AsDict(None)).value, Anonymous),
           Get(review_data.rating, 0),
           Get(review_data.relativePublishTimeDescription, ""),
           ReviewText(review_data),
           Get(review_data.publishTime, ""))

\* ReviewLoop with a fault: no try/except around the parsing of an entry
RECURSIVE ReviewLoopUncaught(_)
ReviewLoopUncaught(raw) ==
    IF raw = <<>> THEN [reviews |-> <<>>, raised |-> FALSE]
    ELSE IF ParseRaises(Head(raw)) THEN [reviews |-> <<>>, raised |-> TRUE]
    ELSE LET rest == ReviewLoopUncaught(Tail(raw))
         IN  [reviews |-> <<ParseReview(Head(raw))>> \o rest.reviews,
              raised |-> rest.raised]

\* ReviewLoop with a fault: the first entry that fails ends the loop
RECURSIVE ReviewLoopBreak(_)
ReviewLoopBreak(raw) ==
    IF raw = <<>> THEN [reviews |-> <<>>, raised |-> FALSE]
    ELSE IF ParseRaises(Head(raw)) THEN [reviews |-> <<>>, raised |-> FALSE]
    ELSE LET rest == ReviewLoopBreak(Tail(raw))
         IN  [reviews |-> <<ParseReview(Head(raw))>> \o rest.reviews,
              raised |-> FALSE]

\* lines 326-350: the loop over the raw entries; an entry that raises is
\* skipped by the except clause and the loop goes on
RECURSIVE ReviewLoop(_)
ReviewLoop(raw) ==
    IF raw = <<>> THEN [reviews |-> <<>>, raised |-> FALSE]
    ELSE LET rest == ReviewLoop(Tail(raw))
         IN  IF ParseRaises(Head(raw)) THEN rest
             ELSE [reviews |-> <<ParseReview(Head(raw))>> \o rest.reviews,
                   raised |-> rest.raised]

\* lines 324-350
ParseReviews(include, details) ==
    IF include /\ IsSome(details.reviews) THEN ReviewLoop(details.reviews[1])
    ELSE [reviews |-> <<>>, raised |-> FALSE]

-----------------------------------------------------------------------------
(* The steps of lookup_business and of the loop of main *)

\* the query of the current iteration of the loop of main
CurrentQuery == queries[i]

SearchCall == [fn |-> "search_text", place_id |-> ""]
DetailsCall(place_id) == [fn |-> "get_place_details", place_id |-> place_id]

\* line 258: not search_response or "places" not in search_response or
\* len(search_response["places"]) == 0
NoResults(response) ==
    \/ ~IsSome(response)
    \/ ~IsSome(response[1].places)
    \/ Len(response[1].places[1]) = 0

\* lines 255-268: search_text is called and answers `response` (None after a
\* transport failure, else the decoded body)
SearchStep(response) ==
    /\ pc = "search"
    /\ calls' = Append(calls, SearchCall)
    /\ IF NoResults(response)
       THEN /\ business_info' = Some(NoMatchRecord(CurrentQuery))
            /\ reviews' = <<>>
            /\ pc' = "return"
       ELSE /\ pc' = "match"
            /\ UNCHANGED <<business_info, reviews>>
    /\ search_response' = response
    /\ UNCHANGED <<mainVars, best_match, similarity_score, candidate_scores,
                   details_response, raised>>

\* MatchStep with a fault: a candidate below the low-confidence band is not
\* fetched but reported as no good match
MatchStepRejectLow ==
    /\ pc = "match"
    /\ LET found == FindBestMatch(CurrentQuery, search_response[1].places[1])
       IN  /\ best_match' = found.best_match
           /\ similarity_score' = found.best_score
           /\ candidate_scores' = found.scores
           /\ IF \/ ~(IsSome(found.best_match) /\ Truthy(found.best_match[1], EmptyPlace))
                 \/ ScoreLess(found.best_score, LowBand)
              THEN /\ business_info' = Some(NoGoodMatchRecord(CurrentQuery))
                   /\ reviews' = <<>>
                   /\ pc' = "return"
              ELSE /\ pc' = "details"
                   /\ UNCHANGED <<business_info, reviews>>
    /\ UNCHANGED <<mainVars, search_response, details_response, calls, raised>>

\* lines 270-293: find_best_match over all_places, and the exit taken when it
\* returns nothing usable
MatchStep ==
    /\ pc = "match"
    /\ LET found == FindBestMatch(CurrentQuery, search_response[1].places[1])
       IN  /\ best_match' = found.best_match
           /\ similarity_score' = found.best_score
           /\ candidate_scores' = found.scores
           /\ IF ~(IsSome(found.best_match) /\ Truthy(found.best_match[1], EmptyPlace))
              THEN /\ business_info' = Some(NoGoodMatchRecord(CurrentQuery))
                   /\ reviews' = <<>>
                   /\ pc' = "return"
              ELSE /\ pc' = "details"
                   /\ UNCHANGED <<business_info, reviews>>
    /\ UNCHANGED <<mainVars, search_response, details_response, calls, raised>>

\* lines 289-291: what the match step knows of the chosen candidate
MatchPlaceId(place) == Get(place.id, "")
MatchName(place) == DisplayText(place, Unknown)
MatchAddress(place) == Get(place.formattedAddress, "")

\* lines 295-352: get_place_details is called with the chosen id and answers
\* `response`; the record is built and the reviews are parsed.  all_places is
\* not read after line 274 and is dropped here, with the logged scores.
DetailsStep(response) ==
    /\ pc = "details"
    /\ LET place == best_match[1]
           place_id == MatchPlaceId(place)
           name == MatchName(place)
           formatted_address == MatchAddress(place)
       IN  /\ calls' = Append(calls, DetailsCall(place_id))
           /\ details_response' = response
           /\ search_response' = None
           /\ candidate_scores' = <<>>
           /\ IF ~(IsSome(response) /\ Truthy(response[1], EmptyDetails))
              THEN /\ business_info' =
                          Some(DetailsFailedRecord(CurrentQuery, place_id, name, formatted_address))
                   /\ reviews' = <<>>
                   /\ raised' = FALSE
                   /\ pc' = "return"
              ELSE LET parsed == ParseReviews(include_reviews, response[1])
                   IN  IF parsed.raised
                       THEN /\ raised' = TRUE
                            /\ pc' = "raised"
                            /\ UNCHANGED <<business_info, reviews>>
                       ELSE /\ business_info' =
                                   Some(SuccessRecord(CurrentQuery, place_id, name, formatted_address,
                                                      response[1], similarity_score))
                            /\ reviews' = parsed.reviews
                            /\ raised' = FALSE
                            /\ pc' = "return"
    /\ UNCHANGED <<mainVars, best_match, similarity_score>>

\* all_reviews[name] = reviews
DictSet(d, key, value) ==
    [k \in DOMAIN d \cup {key} |-> IF k = key THEN value ELSE d[k]]

\* MainStep with a fault: a record with an error ends the loop
MainStepStopOnError ==
    /\ pc = "return"
    /\ businesses' = Append(businesses, business_info[1])
    /\ lookups' = Append(lookups, [query |-> CurrentQuery, reviews |-> reviews])
    /\ all_reviews' = IF reviews # <<>>
                      THEN DictSet(all_reviews, business_info[1].name, reviews)
                      ELSE all_reviews
    /\ IF i < Len(queries) /\ business_info[1].error = None
       THEN /\ i' = i + 1
            /\ pc' = "search"
       ELSE /\ i' = i
            /\ pc' = "done"
    /\ search_response' = None
    /\ best_match' = None
    /\ similarity_score' = Zero
    /\ candidate_scores' = <<>>
    /\ details_response' = None
    /\ business_info' = None
    /\ reviews' = <<>>
    /\ calls' = <<>>
    /\ UNCHANGED <<queries, include_reviews, markdown, raised>>

\* lines 662-674: one iteration of the loop of main, after lookup_business
\* has returned; the locals of the finished call are gone
MainStep ==
    /\ pc = "return"
    /\ businesses' = Append(businesses, business_info[1])
    /\ lookups' = Append(lookups, [query |-> CurrentQuery, reviews |-> reviews])
    /\ all_reviews' = IF reviews # <<>>
                      THEN DictSet(all_reviews, business_info[1].name, reviews)
                      ELSE all_reviews
    /\ IF i < Len(queries)
       THEN /\ i' = i + 1
            /\ pc' = "search"
       ELSE /\ i' = i
            /\ pc' = "done"
    /\ search_response' = None
    /\ best_match' = None
    /\ similarity_score' = Zero
    /\ candidate_scores' = <<>>
    /\ details_response' = None
    /\ business_info' = None
    /\ reviews' = <<>>
    /\ calls' = <<>>
    /\ UNCHANGED <<queries, include_reviews, markdown, raised>>

-----------------------------------------------------------------------------
(* write_markdown_output, lines 442-550.  The file is a sequence of entries, *)
(* one per group of f.write calls; an entry carries the values its lines are *)
(* formatted from.  The review texts of the model are shorter than 500       *)
(* characters and have no '|', so lines 534-536 leave them as they are.      *)

\* `if business.error`: None and "" are false
HasError(business) == IsSome(business.error) /\ business.error[1] # ""

\* `if business.match_score`: None and 0.0 are false
HasScore(business) == IsSome(business.match_score) /\ business.match_score[1] # Zero

\* lines 484 and 511: the format specification "," applied to
\* user_ratings_total raises TypeError when the value is None
FormatRaises(business) == business.user_ratings_total = None

\* lines 460-463
SummaryCounts(records) ==
    LET successful == Cardinality({k \in 1..Len(records) : ~HasError(records[k])})
    IN  [kind |-> "summary", total |-> Len(records), successful |-> successful,
         failed |-> Len(records) - successful]

\* lines 478-482
Status(business) ==
    IF HasScore(business) /\ ScoreLess(business.match_score[1], LowBand) THEN "Low Match"
    ELSE IF HasScore(business) /\ ScoreLess(business.match_score[1], VerifyBand) THEN "Verify"
    ELSE "ok"

\* lines 471-484: the row of one record, when formatting it does not raise
OverviewRow(business) ==
    IF HasError(business)
    THEN [kind |-> "row", business |-> business.query, rating |-> None, reviews |-> None,
          match_score |-> None, status |-> "failed", error |-> business.error]
    ELSE [kind |-> "row", business |-> business.name, rating |-> business.rating,
          reviews |-> business.user_ratings_total,
          match_score |-> IF HasScore(business) THEN business.match_score ELSE None,
          status |-> Status(business), error |-> None]

\* lines 470-484: the rows written until the loop ends or a row raises
RECURSIVE OverviewTable(_)
OverviewTable(records) ==
    IF records = <<>> THEN [lines |-> <<>>, raised |-> FALSE]
    ELSE IF ~HasError(Head(records)) /\ FormatRaises(Head(records))
    THEN [lines |-> <<>>, raised |-> TRUE]
    ELSE LET rest == OverviewTable(Tail(records))
         IN  [lines |-> <<OverviewRow(Head(records))>> \o rest.lines, raised |-> rest.raised]

\* line 522: all_reviews.get(business.name, [])
ReviewsOf(review_map, name) ==
    IF name \in DOMAIN review_map THEN review_map[name] ELSE <<>>

\* lines 527-537: the lines of the j-th review
ShownReview(j, review) ==
    [review |-> j, author |-> review.author, rating |-> review.rating,
     relative_time |-> review.relative_time,
     text |-> IF review.text # "" THEN Some(review.text) ELSE None]

\* lines 492-539: the section of the record at position index, until it ends
\* or a line of it raises
DetailSection(index, business, review_map) ==
    LET title == [kind |-> "section", index |-> index,
                  title |-> IF business.name # <<>> THEN business.name ELSE business.query]
        failed == [kind |-> "status", index |-> index, error |-> business.error,
                   query |-> business.query]
        head == [kind |-> "query", index |-> index, query |-> business.query,
                 match_score |-> IF HasScore(business) THEN business.match_score ELSE None,
                 note |-> Status(business)]
        body == [kind |-> "details", index |-> index, rating |-> business.rating,
                 reviews |-> business.user_ratings_total,
                 formatted_address |-> business.formatted_address,
                 maps_url |-> business.maps_url, place_id |-> business.place_id]
        found == ReviewsOf(review_map, business.name)
        shown == [kind |-> "reviews", index |-> index,
                  reviews |-> [j \in 1..Len(found) |-> ShownReview(j, found[j])]]
        end == [kind |-> "end", index |-> index]
    IN  IF HasError(business) THEN [lines |-> <<title, failed>>, raised |-> FALSE]
        ELSE IF FormatRaises(business) THEN [lines |-> <<title, head>>, raised |-> TRUE]
        ELSE IF found # <<>> THEN [lines |-> <<title, head, body, shown, end>>, raised |-> FALSE]
        ELSE [lines |-> <<title, head, body, end>>, raised |-> FALSE]

\* lines 491-539: the sections written until the loop ends or one raises
RECURSIVE DetailedResults(_, _, _)
DetailedResults(records, review_map, index) ==
    IF index > Len(records) THEN [lines |-> <<>>, raised |-> FALSE]
    ELSE LET section == DetailSection(index, records[index], review_map)
         IN  IF section.raised THEN section
             ELSE LET rest == DetailedResults(records, review_map, index + 1)
                  IN  [lines |-> section.lines \o rest.lines, raised |-> rest.raised]

\* lines 451-550: what the file holds when the function returns; an exception
\* leaves what was written before it and is logged by the except clause
WriteMarkdownOutput(records, review_map) ==
    LET summary == <<SummaryCounts(records)>>
        table == OverviewTable(records)
        sections == DetailedResults(records, review_map, 1)
    IN  IF table.raised
        THEN [lines |-> summary \o table.lines, error_logged |-> TRUE]
        ELSE IF sections.raised
        THEN [lines |-> summary \o table.lines \o sections.lines, error_logged |-> TRUE]
        ELSE [lines |-> summary \o table.lines \o sections.lines \o <<[kind |-> "notes"]>>,
              error_logged |-> FALSE]

\* lines 687-688: main writes the report after the loop (args.markdown is set)
WriteStep ==
    /\ pc = "done"
    /\ markdown' = Some(WriteMarkdownOutput(businesses, all_reviews))
    /\ pc' = "written"
    /\ UNCHANGED <<queries, include_reviews, i, businesses, all_reviews, lookups,
                   search_response, best_match, similarity_score, candidate_scores,
                   details_response, business_info, reviews, calls, raised>>

-----------------------------------------------------------------------------
(* The inputs: queries, and what the provider may answer *)

\* the id of the k-th candidate of a search response
PlaceIdAt(k) == CASE k = 1 -> "p1" [] k = 2 -> "p2" [] k = 3 -> "p3" [] OTHER -> "p4"

\* the lists of length 0..n over S
ListsUpTo(S, n) == UNION {[1..m -> S] : m \in 0..n}

\* a candidate list in which the k-th candidate that has an id has the k-th id
NumberIds(places) ==
    [k \in 1..Len(places) |->
        [places[k] EXCEPT !.id = IF IsSome(@) THEN Some(PlaceIdAt(k)) ELSE None]]

TextOf(name) == Some([text |-> Some(name)])
NoText == Some([text |-> None])

\* queries and answers of the whole pipeline
QueriesP == {<<"a">>,
              <<"c", ",", " ", "a">>,
              <<"u", "t">>,
              <<"b", "a">>,
              <<"b", "b", "b">>}

NamesP == {<<"a">>, <<"A", "b">>}

PlacesP ==
    {[id |-> id, displayName |-> dn, formattedAddress |-> fa] :
        id \in {None, Some("")},
        dn \in {None} \cup {TextOf(n) : n \in NamesP},
        fa \in {None, Some("addr1")}}

SearchResponsesP ==
    {None, Some([places |-> None])}
        \cup {Some([places |-> Some(NumberIds(l))]) : l \in ListsUpTo(PlacesP, MaxCands)}

\* a raw review with the given fields
Raw(author, rating, relative, original, text, publish) ==
    [isDict |-> TRUE, authorAttribution |-> author, rating |-> rating,
     relativePublishTimeDescription |-> relative, originalText |-> original,
     text |-> text, publishTime |-> publish]

RawFull ==
    Raw(Some(AsDict(Some("Ann"))), Some(5), Some("a week ago"),
        Some(AsDict(Some("orig"))), Some(AsDict(Some("txt"))), Some("2024-01-01"))
RawTextOnly == Raw(None, None, None, None, Some(AsDict(Some("txt"))), None)
RawBare == Raw(None, None, None, None, None, None)
RawOriginalNoText ==
    Raw(Some(AsDict(None)), Some(1), None, Some(AsDict(None)), Some(AsDict(Some("txt"))), None)
RawBadText == Raw(None, Some(4), None, Some(NotADict), None, None)
RawBadSecondary ==
    Raw(Some(AsDict(Some("Bob"))), None, Some("a day ago"), Some(AsDict(Some("orig"))),
        Some(NotADict), None)
RawNotDict ==
    [isDict |-> FALSE, authorAttribution |-> None, rating |-> None,
     relativePublishTimeDescription |-> None, originalText |-> None,
     text |-> None, publishTime |-> None]

DetailsOver(names, ratings, counts, uris, addresses, reviewLists) ==
    {[displayName |-> dn, rating |-> r, userRatingCount |-> c, googleMapsUri |-> u,
      formattedAddress |-> fa, reviews |-> rv] :
        dn \in names, r \in ratings, c \in counts, u \in uris, fa \in addresses,
        rv \in reviewLists}

DetailResponsesP ==
    {None} \cup {Some(d) : d \in
        DetailsOver({None, NoText, TextOf(<<"b">>)}, {None, Some(4)}, {None, Some(12)},
                    {None, Some("url1")}, {None, Some("addr2")},
                    {None, Some(<<>>), Some(<<RawFull>>), Some(<<RawNotDict>>)})}

\* inputs of the review parsing: one candidate, many review payloads
RawReviews ==
    {RawFull, RawTextOnly, RawBare, RawOriginalNoText, RawBadSecondary, RawBadText, RawNotDict}

SearchResponsesR ==
    {Some([places |-> Some(<<[id |-> Some("p1"), displayName |-> TextOf(<<"a">>),
                              formattedAddress |-> Some("addr1")]>>)])}

DetailResponsesR ==
    {None} \cup {Some(d) : d \in
        DetailsOver({TextOf(<<"b">>)}, {None, Some(4)}, {Some(12)}, {Some("url1")},
                    {Some("addr2")},
                    {None} \cup {Some(l) : l \in ListsUpTo(RawReviews, MaxReviews)})}

\* inputs of find_best_match
QueriesM == {<<"a">>,
              <<"a", "b">>,
              <<"b", "a">>,
              <<>>,
              <<"c">>,
              <<"a", "b", " ", "i", "n", " ", "b">>,
              <<"b", ",", " ", "a">>,
              <<"a", " ", "u", "t">>,
              <<"u", "t">>,
              <<"A", "b">>,
              <<"a", "b", "b">>,
              <<"a", " ", "b">>,
              <<",", " ", "a">>}

NamesM == UNION {[1..n -> {"a", "b"}] : n \in 0..MaxNameLen} \cup {<<"A", "b">>}

PlacesM ==
    {[id |-> Some(""), displayName |-> dn, formattedAddress |-> None] :
        dn \in {None} \cup {TextOf(n) : n \in NamesM}}

\* inputs of a batch: two places that share a display name, and detail
\* bodies with and without rating, rating count and reviews
QueriesB == {<<"a">>, <<"c">>}

PlaceB(id, address) ==
    [id |-> Some(id), displayName |-> TextOf(<<"a">>), formattedAddress |-> address]

SearchResponsesB ==
    {None,
     Some([places |-> Some(<<PlaceB("p1", Some("addr1"))>>)]),
     Some([places |-> Some(<<PlaceB("p2", None)>>)])}

DetailsB(name, rating, count, reviewList) ==
    [displayName |-> name, rating |-> rating, userRatingCount |-> count,
     googleMapsUri |-> Some("url1"), formattedAddress |-> None, reviews |-> reviewList]

DetailResponsesB ==
    {None,
     Some(DetailsB(None, Some(4), Some(12), Some(<<RawFull>>))),
     Some(DetailsB(None, Some(4), Some(12), Some(<<RawTextOnly>>))),
     Some(DetailsB(None, None, Some(12), None)),
     Some(DetailsB(None, Some(4), None, Some(<<RawFull>>))),
     Some(DetailsB(TextOf(<<"b">>), Some(4), Some(12), None))}

-----------------------------------------------------------------------------
(* Specifications *)

StartLocals ==
    /\ i = 1
    /\ businesses = <<>>
    /\ all_reviews = [n \in {} |-> <<>>]
    /\ lookups = <<>>
    /\ markdown = None
    /\ best_match = None
    /\ similarity_score = Zero
    /\ candidate_scores = <<>>
    /\ details_response = None
    /\ business_info = None
    /\ reviews = <<>>
    /\ raised = FALSE

\* main with one query, before the first call of lookup_business
Init ==
    /\ queries \in {<<q>> : q \in QueriesP}
    /\ include_reviews \in BOOLEAN
    /\ pc = "search"
    /\ search_response = None
    /\ calls = <<>>
    /\ StartLocals

Search == \E response \in SearchResponsesP : SearchStep(response)
Details == \E response \in DetailResponsesP : DetailsStep(response)

Next == Search \/ MatchStep \/ Details \/ MainStep

Spec == Init /\ [][Next]_vars

\* the review parsing on many payloads
InitReviews ==
    /\ queries = <<<<"a">>>>
    /\ include_reviews \in BOOLEAN
    /\ pc = "search"
    /\ search_response = None
    /\ calls = <<>>
    /\ StartLocals

SearchR == \E response \in SearchResponsesR : SearchStep(response)
DetailsR == \E response \in DetailResponsesR : DetailsStep(response)

NextReviews == SearchR \/ MatchStep \/ DetailsR \/ MainStep

SpecReviews == InitReviews /\ [][NextReviews]_vars

\* find_best_match on many queries and candidate lists: lookup_business at
\* line 274, with any candidate list (the empty one included)
InitMatch ==
    /\ queries \in {<<q>> : q \in QueriesM}
    /\ include_reviews = TRUE
    /\ pc = "match"
    /\ search_response \in
          {Some([places |-> Some(NumberIds(l))]) : l \in ListsUpTo(PlacesM, MaxCands)}
    /\ calls = <<SearchCall>>
    /\ StartLocals

NextMatch == MatchStep

SpecMatch == InitMatch /\ [][NextMatch]_vars

\* main with a batch of 1..MaxQueries queries, up to the Markdown report
InitBatch ==
    /\ queries \in UNION {[1..n -> QueriesB] : n \in 1..MaxQueries}
    /\ include_reviews \in BOOLEAN
    /\ pc = "search"
    /\ search_response = None
    /\ calls = <<>>
    /\ StartLocals

SearchB == \E response \in SearchResponsesB : SearchStep(response)
DetailsStepB == \E response \in DetailResponsesB : DetailsStep(response)

NextBatch == SearchB \/ MatchStep \/ DetailsStepB \/ MainStep \/ WriteStep

SpecBatch == InitBatch /\ [][NextBatch]_vars

-----------------------------------------------------------------------------
(* What the properties speak about *)

\* lookup_business has returned and main has not yet consumed the result
Returned == pc = "return"

\* the record lookup_business returned
returned_record == business_info[1]

\* get_place_details was called by the current lookup_business
DetailsCalled == \E k \in 1..Len(calls) : calls[k].fn = "get_place_details"

\* the search failed or offered no candidate
NoCandidates ==
    /\ ~IsSome(best_match)
    /\ \/ search_response = None
       \/ ~IsSome(search_response[1].places)
       \/ search_response[1].places[1] = <<>>

\* the detail fetch was made and failed (None, or a body with no field)
DetailsFailed ==
    /\ Returned
    /\ DetailsCalled
    /\ (details_response = None \/ details_response[1] = EmptyDetails)

\* the detail fetch was made and succeeded
DetailsFetched ==
    /\ Returned
    /\ DetailsCalled
    /\ details_response # None
    /\ details_response[1] # EmptyDetails

\* the candidate chosen by the match step
selected == best_match[1]

SelectedName ==
    IF IsSome(selected.displayName) /\ IsSome(selected.displayName[1].text)
    THEN selected.displayName[1].text[1]
    ELSE Unknown

SelectedId == IF IsSome(selected.id) THEN selected.id[1] ELSE ""

SelectedAddress ==
    IF IsSome(selected.formattedAddress) THEN selected.formattedAddress[1] ELSE ""

ErrorTexts == {"No match found", "No good match found", "Could not retrieve details"}

-----------------------------------------------------------------------------
\* how far main has come: four steps per query (search, match, detail fetch,
\* collecting the result)
PcRank ==
    CASE pc = "search" -> 0 [] pc = "match" -> 1 [] pc = "details" -> 2
      [] pc = "return" -> 3 [] OTHER -> 4

Progress == (i - 1) * 4 + PcRank

\* the values the next step reads are there: it cannot fail on a missing key
\* or on None
StepDefined ==
    /\ pc = "match" =>
          /\ search_response # None
          /\ IsSome(search_response[1].places)
          /\ search_response[1].places[1] # <<>>
    /\ pc = "details" => IsSome(best_match)
    /\ pc = "return" => IsSome(business_info)

C1_ReturnsOneRecord ==
    /\ raised = FALSE
    /\ pc \in {"search", "match", "details", "return", "done"}
    /\ StepDefined
    /\ Len(calls) <= 2
    /\ pc # "return" => business_info = None
    /\ Returned =>
        /\ returned_record.query = queries[i]
        /\ returned_record.error \in {None} \cup {Some(e) : e \in ErrorTexts}
        /\ IsSome(returned_record.error) <=> ~DetailsFetched
    /\ pc = "done" => Len(businesses) = Len(queries)

(* C1: whatever the search answers (nothing, no candidates, candidates),     *)
(* whatever the detail fetch answers (nothing, a body with or without a      *)
(* review list) and whether or not reviews are requested, lookup_business    *)
(* never raises, every step it takes brings it nearer to its return (at most *)
(* two remote calls, at most three steps), and it returns exactly one        *)
(* record, whose error field is set exactly when the search, the match or    *)
(* the detail fetch failed; main then holds one record per query.            *)
C1_NeverRaises ==
    /\ []C1_ReturnsOneRecord
    /\ [][Progress' > Progress]_vars

\* C1 witness: a requested review list with an entry that cannot be parsed
\* went through, and a record without error came back
C1_Witness ==
    /\ DetailsFetched
    /\ include_reviews
    /\ IsSome(details_response[1].reviews)
    /\ \E k \in 1..Len(details_response[1].reviews[1]) :
            ~details_response[1].reviews[1][k].isDict
    /\ returned_record.error = None

(* C2: when search_text fails, or its answer has no "places" key or an      *)
(* empty "places" list, the record has error "No match found", an empty     *)
(* place_id, name and maps_url, no rating and no rating count, the review   *)
(* list is empty and get_place_details has not been called.                 *)
C2_NoMatchFound ==
    (Returned /\ NoCandidates) =>
        /\ returned_record.error = Some("No match found")
        /\ returned_record.place_id = ""
        /\ returned_record.name = <<>>
        /\ returned_record.maps_url = ""
        /\ returned_record.rating = None
        /\ returned_record.user_ratings_total = None
        /\ reviews = <<>>
        /\ ~DetailsCalled
        /\ calls = <<SearchCall>>

\* C2 witness: the search answered with an empty candidate list
C2_Witness ==
    /\ Returned
    /\ NoCandidates
    /\ search_response # None
    /\ IsSome(search_response[1].places)
    /\ returned_record.error = Some("No match found")

(* C3: when a candidate was selected and get_place_details fails, the       *)
(* record has error "Could not retrieve details" and the place_id, name and *)
(* formatted_address of the selected candidate (the defaults "", "Unknown"  *)
(* and "" for a key the candidate lacks), and the review list is empty.     *)
C3_DetailsFailureKeepsMatch ==
    DetailsFailed =>
        /\ returned_record.error = Some("Could not retrieve details")
        /\ returned_record.place_id = SelectedId
        /\ returned_record.name = SelectedName
        /\ returned_record.formatted_address = Some(SelectedAddress)
        /\ reviews = <<>>

\* C3 witness: the detail fetch failed for a candidate that has all three keys
C3_Witness ==
    /\ DetailsFailed
    /\ IsSome(selected.id)
    /\ IsSome(selected.formattedAddress)
    /\ IsSome(selected.displayName)
    /\ IsSome(selected.displayName[1].text)
    /\ returned_record.place_id = selected.id[1]

(* C4, as claimed: a record with an error carries no rating, no rating      *)
(* count, no formatted address and no maps_url.                             *)
C4_ErrorCarriesNoData ==
    (Returned /\ IsSome(returned_record.error)) =>
        /\ returned_record.rating = None
        /\ returned_record.user_ratings_total = None
        /\ returned_record.maps_url = ""
        /\ returned_record.formatted_address \in {None, Some("")}

(* C4, amended: a record with an error carries no rating, no rating count   *)
(* and no maps_url; it carries no formatted address when the error is "No   *)
(* match found" or "No good match found", and the selected candidate's      *)
(* formatted address when the error is "Could not retrieve details".        *)
C4_ErrorCarriesNoDataAmended ==
    (Returned /\ IsSome(returned_record.error)) =>
        /\ returned_record.rating = None
        /\ returned_record.user_ratings_total = None
        /\ returned_record.maps_url = ""
        /\ returned_record.error[1] \in {"No match found", "No good match found"}
              => returned_record.formatted_address = None
        /\ returned_record.error[1] = "Could not retrieve details"
              => returned_record.formatted_address = Some(SelectedAddress)

\* C4 witness: a failed detail fetch left the candidate's address in the record
C4_Witness ==
    /\ DetailsFailed
    /\ IsSome(returned_record.error)
    /\ IsSome(selected.formattedAddress)
    /\ returned_record.formatted_address = selected.formattedAddress

(* C5, as claimed: exactly one of "place_id is non-empty" and "error is     *)
(* non-empty" holds of every returned record.                               *)
C5_PlaceIdXorError ==
    Returned => ((returned_record.place_id # "") <=> ~IsSome(returned_record.error))

(* C5, amended: a record without error comes from a successful detail fetch *)
(* and has the selected candidate's place_id (non-empty when the candidate  *)
(* carries an id); a record with an error has an empty place_id, except     *)
(* that the error "Could not retrieve details" keeps the selected           *)
(* candidate's place_id.                                                    *)
C5_PlaceIdXorErrorAmended ==
    Returned =>
        /\ returned_record.error = None =>
              /\ DetailsFetched
              /\ returned_record.place_id = SelectedId
              /\ IsSome(selected.id) => returned_record.place_id # ""
        /\ returned_record.error \in {Some("No match found"), Some("No good match found")}
              => returned_record.place_id = ""
        /\ returned_record.error = Some("Could not retrieve details")
              => returned_record.place_id = SelectedId
        /\ returned_record.error \in {None} \cup {Some(e) : e \in ErrorTexts}

\* C5 witness: a record with both a place_id and an error
C5_Witness ==
    /\ DetailsFailed
    /\ returned_record.place_id # ""
    /\ returned_record.error = Some("Could not retrieve details")

-----------------------------------------------------------------------------
(* Properties of the match step *)

\* find_best_match has run on a non-empty candidate list, which is still at hand
Matched ==
    /\ pc \in {"details", "return"}
    /\ search_response # None
    /\ IsSome(search_response[1].places)
    /\ search_response[1].places[1] # <<>>

all_places == search_response[1].places[1]

\* the case-folded names the scorer compares
business_name == ExtractBusinessName(queries[i])
CandidateName(k) ==
    IF IsSome(all_places[k].displayName) /\ IsSome(all_places[k].displayName[1].text)
    THEN Lower(all_places[k].displayName[1].text[1])
    ELSE <<>>

(* C6: for every non-empty candidate list, find_best_match returns a        *)
(* candidate whose score is at least the score of every candidate, the      *)
(* earliest of those with that score, and returns that candidate's score.   *)
C6_BestMatchIsFirstMaximum ==
    Matched =>
        /\ IsSome(best_match)
        /\ \E k \in 1..Len(all_places) :
              /\ best_match[1] = all_places[k]
              /\ similarity_score = candidate_scores[k]
              /\ \A j \in 1..Len(all_places) :
                    ~ScoreLess(candidate_scores[k], candidate_scores[j])
              /\ \A j \in 1..(k - 1) :
                    ScoreLess(candidate_scores[j], candidate_scores[k])

\* C6, where the code does what is claimed: when some candidate has a score
\* above zero, the first candidate of greatest score and its score are returned
C6_FirstMaximumWhenPositive ==
    (Matched /\ \E j \in 1..Len(all_places) : ScoreLess(Zero, candidate_scores[j])) =>
        /\ IsSome(best_match)
        /\ \E k \in 1..Len(all_places) :
              /\ best_match[1] = all_places[k]
              /\ similarity_score = candidate_scores[k]
              /\ \A j \in 1..Len(all_places) :
                    ~ScoreLess(candidate_scores[k], candidate_scores[j])
              /\ \A j \in 1..(k - 1) :
                    ScoreLess(candidate_scores[j], candidate_scores[k])

(* C7: once the search has returned at least one candidate, find_best_match *)
(* selects a candidate, and no record has the error "No good match found".  *)
C7_NoGoodMatchUnreachable ==
    /\ Matched => (IsSome(best_match) /\ best_match[1] # EmptyPlace)
    /\ Returned => returned_record.error # Some("No good match found")

(* C8: every candidate's score lies in [0,1]; when the business name is a   *)
(* substring of the case-folded display name the score is max(ratio, 0.8),  *)
(* so at least 0.8; otherwise it is the plain ratio; equal strings score 1. *)
C8_ScoreRange ==
    Matched =>
        /\ Len(candidate_scores) = Len(all_places)
        /\ \A k \in 1..Len(all_places) :
              LET score == candidate_scores[k]
                  ratio == Ratio(business_name, CandidateName(k))
              IN  /\ ~ScoreLess(score, Zero)
                  /\ ~ScoreLess(One, score)
                  /\ Contains(business_name, CandidateName(k)) =>
                        /\ score = (IF ScoreLess(ratio, Frac(4, 5)) THEN Frac(4, 5) ELSE ratio)
                        /\ ~ScoreLess(score, Frac(4, 5))
                  /\ ~Contains(business_name, CandidateName(k)) => score = ratio
                  /\ business_name = CandidateName(k) => score = One

\* C8 witness: a candidate whose name contains the business name and whose
\* plain ratio is below 0.8 was scored 0.8
C8_Witness ==
    /\ Matched
    /\ \E k \in 1..Len(all_places) :
          /\ Contains(business_name, CandidateName(k))
          /\ ScoreLess(Ratio(business_name, CandidateName(k)), Frac(4, 5))
          /\ business_name # <<>>
          /\ candidate_scores[k] = Frac(4, 5)

-----------------------------------------------------------------------------
(* Properties of the assembled record and of the review list *)

details == details_response[1]

(* C9: after a successful detail fetch the record has no error, the         *)
(* selected candidate's place_id and the score of the match step; its name  *)
(* and formatted_address are the detail response's when it has them and the *)
(* selected candidate's otherwise; rating, rating count and maps_url come   *)
(* from the detail response alone.                                          *)
C9_DetailsAuthoritative ==
    DetailsFetched =>
        /\ returned_record.error = None
        /\ returned_record.place_id = SelectedId
        /\ returned_record.match_score = Some(similarity_score)
        /\ returned_record.name =
              (IF IsSome(details.displayName) /\ IsSome(details.displayName[1].text)
               THEN details.displayName[1].text[1] ELSE SelectedName)
        /\ returned_record.formatted_address =
              (IF IsSome(details.formattedAddress)
               THEN details.formattedAddress ELSE Some(SelectedAddress))
        /\ returned_record.rating = details.rating
        /\ returned_record.user_ratings_total = details.userRatingCount
        /\ returned_record.maps_url =
              (IF IsSome(details.googleMapsUri) THEN details.googleMapsUri[1] ELSE "")

\* C9 witness: the detail response and the candidate disagree on name and
\* address, and the record has the detail response's
C9_Witness ==
    /\ DetailsFetched
    /\ IsSome(details.displayName)
    /\ IsSome(details.displayName[1].text)
    /\ IsSome(details.formattedAddress)
    /\ IsSome(selected.formattedAddress)
    /\ details.displayName[1].text[1] # SelectedName
    /\ details.formattedAddress # selected.formattedAddress
    /\ returned_record.name = details.displayName[1].text[1]
    /\ returned_record.formatted_address = details.formattedAddress

\* the raw review list of the detail response
raw_reviews == details.reviews[1]

\* the positions of the raw entries that can be parsed
Parsable == {k \in 1..Len(raw_reviews) : ~ParseRaises(raw_reviews[k])}

\* the review a parsable raw entry is normalized to
Normalized(review_data) ==
    [author |->
        IF IsSome(review_data.authorAttribution)
           /\ IsSome(review_data.authorAttribution[1].value)
        THEN review_data.authorAttribution[1].value[1] ELSE "Anonymous",
     rating |-> IF IsSome(review_data.rating) THEN review_data.rating[1] ELSE 0,
     relative_time |->
        IF IsSome(review_data.relativePublishTimeDescription)
        THEN review_data.relativePublishTimeDescription[1] ELSE "",
     text |->
        IF IsSome(review_data.originalText)
        THEN (IF IsSome(review_data.originalText[1].value)
              THEN review_data.originalText[1].value[1] ELSE "")
        ELSE IF IsSome(review_data.text)
        THEN (IF IsSome(review_data.text[1].value)
              THEN review_data.text[1].value[1] ELSE "")
        ELSE "",
     publish_time |->
        IF IsSome(review_data.publishTime) THEN review_data.publishTime[1] ELSE ""]

(* C10: the returned review list is empty unless reviews were requested and *)
(* the successful detail response has a review list; then it holds, in      *)
(* payload order, the normalized review of every raw entry that can be      *)
(* parsed (author "Anonymous", rating 0 and text "" when missing; text from *)
(* originalText, else from text), an entry without text fields is kept with *)
(* text "", an entry that cannot be parsed is skipped and nothing else, and *)
(* the record is the one a response without malformed entries would give.   *)
C10_ReviewList ==
    Returned =>
        IF DetailsFetched /\ include_reviews /\ IsSome(details.reviews)
        THEN /\ Len(reviews) = Cardinality(Parsable)
             /\ \A k \in Parsable :
                   reviews[Cardinality({j \in Parsable : j <= k})] = Normalized(raw_reviews[k])
             /\ returned_record.error = None
             /\ returned_record.rating = details.rating
             /\ returned_record.name = details.displayName[1].text[1]
        ELSE reviews = <<>>

\* C10 witness: of two raw entries the first cannot be parsed and the second
\* has no text field; the second alone is returned, with text ""
C10_Witness ==
    /\ DetailsFetched
    /\ include_reviews
    /\ IsSome(details.reviews)
    /\ Len(raw_reviews) = 2
    /\ ParseRaises(raw_reviews[1])
    /\ ~ParseRaises(raw_reviews[2])
    /\ ~IsSome(raw_reviews[2].originalText)
    /\ ~IsSome(raw_reviews[2].text)
    /\ Len(reviews) = 1
    /\ reviews[1].text = ""

-----------------------------------------------------------------------------
\* the loop of main has ended
LoopDone == pc \in {"done", "written"}

\* the record a call of lookup_business on the current query alone gives for
\* the answers it got
OwnRecord ==
    IF NoCandidates THEN NoMatchRecord(queries[i])
    ELSE IF ~(IsSome(best_match) /\ Truthy(best_match[1], EmptyPlace))
    THEN NoGoodMatchRecord(queries[i])
    ELSE IF DetailsFailed
    THEN DetailsFailedRecord(queries[i], SelectedId, SelectedName, SelectedAddress)
    ELSE SuccessRecord(queries[i], SelectedId, SelectedName, SelectedAddress,
                       details_response[1], similarity_score)

C11_OneRecordPerQuery ==
    /\ i \in 1..Len(queries)
    /\ Len(businesses) = IF LoopDone THEN Len(queries) ELSE i - 1
    /\ Len(lookups) = Len(businesses)
    /\ \A k \in 1..Len(businesses) :
          /\ lookups[k].query = queries[k]
          /\ businesses[k].query = queries[k]
    /\ Returned => returned_record = OwnRecord

C11_LoopGoesOn ==
    /\ \A k \in 1..Len(businesses) : businesses'[k] = businesses[k]
    /\ Returned =>
          /\ businesses' = Append(businesses, returned_record)
          /\ i < Len(queries) => (i' = i + 1 /\ pc' = "search")

(* C11: for a batch of n >= 1 queries the loop of main calls lookup_business *)
(* once per query, in input order, and ends with n records, the k-th for the *)
(* k-th query; the record of a query is the one its own answers give,        *)
(* whatever happened to the queries before it, records once collected never  *)
(* change, and a record with an error is collected like any other and the    *)
(* loop goes on to the next query.                                           *)
C11_BatchResults ==
    /\ []C11_OneRecordPerQuery
    /\ [][C11_LoopGoesOn]_vars

\* C11 witness: a batch ended whose first query failed and whose second
\* query succeeded
C11_Witness ==
    /\ pc = "done"
    /\ Len(queries) >= 2
    /\ businesses[1].error # None
    /\ businesses[2].error = None
    /\ businesses[2].place_id # ""

-----------------------------------------------------------------------------
\* the match step chose a candidate
CandidateSelected == IsSome(best_match) /\ Truthy(best_match[1], EmptyPlace)

C12_CallOrder ==
    /\ pc \in {"search", "done"} => calls = <<>>
    /\ pc \in {"match", "details"} => calls = <<SearchCall>>
    /\ pc = "details" =>
          /\ CandidateSelected
          /\ \E k \in 1..Len(search_response[1].places[1]) :
                search_response[1].places[1][k] = selected
    /\ Returned =>
          calls = IF CandidateSelected
                  THEN <<SearchCall, DetailsCall(SelectedId)>>
                  ELSE <<SearchCall>>

C12_CallsOnlyAdded ==
    /\ \/ calls' = calls
       \/ calls = <<>> /\ calls' = <<SearchCall>>
       \/ pc = "details" /\ calls' = <<SearchCall, DetailsCall(SelectedId)>>
       \/ Returned /\ calls' = <<>>
    /\ (pc = "match" /\ IsSome(best_match') /\ Truthy(best_match'[1], EmptyPlace)) =>
          pc' = "details"
    /\ pc = "details" => calls' = <<SearchCall, DetailsCall(SelectedId)>>

(* C12: within one call of lookup_business, search_text is called exactly    *)
(* once and first; get_place_details is called at most once, only after the  *)
(* search offered a candidate and the match step chose one, and with the id  *)
(* of the chosen candidate; nothing is called after it; and once a candidate *)
(* is chosen the detail fetch is made whatever its score, below 0.5 and in   *)
(* [0.5, 0.7) included.                                                      *)
C12_RemoteCalls ==
    /\ []C12_CallOrder
    /\ [][C12_CallsOnlyAdded]_vars

\* C12 witness: a candidate chosen with a score below 0.5 was fetched and a
\* record without error came back
C12_Witness ==
    /\ Returned
    /\ Warning(best_match, similarity_score) = "low"
    /\ calls = <<SearchCall, DetailsCall(SelectedId)>>
    /\ returned_record.error = None

\* a candidate chosen with a score in [0.5, 0.7) was fetched as well
C12_VerifyBandFetched ==
    /\ Returned
    /\ Warning(best_match, similarity_score) = "verify"
    /\ calls = <<SearchCall, DetailsCall(SelectedId)>>

-----------------------------------------------------------------------------
\* the positions of the queries that resolved to the given name with a
\* non-empty review list
ReviewedAs(name) ==
    {k \in 1..Len(businesses) : businesses[k].name = name /\ lookups[k].reviews # <<>>}

\* the review list of the query processed last among them
LaterList(name) == lookups[SetMax(ReviewedAs(name))].reviews

\* two queries resolved to distinct places that share a display name, each
\* with reviews
Collide(k1, k2) ==
    /\ k1 < k2
    /\ businesses[k1].name = businesses[k2].name
    /\ businesses[k1].place_id # businesses[k2].place_id
    /\ lookups[k1].reviews # <<>>
    /\ lookups[k2].reviews # <<>>

\* the report has, in the section of the k-th record, exactly the given
\* review list
Shows(k, list) ==
    LET lines == markdown[1].lines
        shown == {n \in 1..Len(lines) : lines[n].kind = "reviews" /\ lines[n].index = k}
    IN  /\ Cardinality(shown) = 1
        /\ \A n \in shown :
              /\ Len(lines[n].reviews) = Len(list)
              /\ \A j \in 1..Len(list) :
                    /\ lines[n].reviews[j].author = list[j].author
                    /\ lines[n].reviews[j].rating = list[j].rating
                    /\ lines[n].reviews[j].relative_time = list[j].relative_time
                    /\ lines[n].reviews[j].text = IF list[j].text = "" THEN None
                                                  ELSE Some(list[j].text)

\* the mapping after the loop: keyed by display name, the later list wins
C13_KeyedByName ==
    LoopDone =>
        /\ DOMAIN all_reviews = {businesses[k].name : k \in
                                    {n \in 1..Len(businesses) : lookups[n].reviews # <<>>}}
        /\ \A name \in DOMAIN all_reviews : all_reviews[name] = LaterList(name)

\* what the report shows for the records of colliding queries
ShowsLaterList ==
    \A k1, k2 \in 1..Len(businesses) :
        Collide(k1, k2) =>
            /\ Shows(k1, LaterList(businesses[k1].name))
            /\ Shows(k2, LaterList(businesses[k2].name))

(* C13: the review mapping of a batch is keyed by display name: after the    *)
(* loop it has an entry for a name exactly when some query resolved to a     *)
(* record of that name with a non-empty review list; when two queries        *)
(* resolve to distinct places of one display name, only the review list of   *)
(* the query processed later is kept, and the Markdown report shows that     *)
(* list for both records.                                                    *)
C13_ReviewMapping ==
    /\ C13_KeyedByName
    /\ pc = "written" => ShowsLaterList

\* the part of C13 that the code keeps: the mapping is as stated, and a report
\* that was written to its end shows the later list for both records
C13_ShownWhenReportWritten ==
    /\ C13_KeyedByName
    /\ (pc = "written" /\ ~markdown[1].error_logged) => ShowsLaterList

\* two colliding queries with different review lists, and a report written
\* to its end
C13_CollisionReported ==
    /\ pc = "written"
    /\ ~markdown[1].error_logged
    /\ \E k1, k2 \in 1..Len(businesses) :
          Collide(k1, k2) /\ lookups[k1].reviews # lookups[k2].reviews

-----------------------------------------------------------------------------
\* the records main collected that have no error
Succeeded == {k \in 1..Len(businesses) : businesses[k].error = None}

\* the report has the summary counts, a row and a section per record in list
\* order, every failed record with its error, and its closing notes
ReportComplete ==
    LET lines == markdown[1].lines
        IsRow(e) == e.kind = "row"
        IsSection(e) == e.kind = "section"
        rows == SelectSeq(lines, IsRow)
        sections == SelectSeq(lines, IsSection)
    IN  /\ lines[1] = [kind |-> "summary", total |-> Len(businesses),
                       successful |-> Cardinality(Succeeded),
                       failed |-> Len(businesses) - Cardinality(Succeeded)]
        /\ Len(rows) = Len(businesses)
        /\ \A k \in 1..Len(rows) :
              /\ rows[k].error = businesses[k].error
              /\ rows[k].business = IF k \in Succeeded THEN businesses[k].name
                                    ELSE businesses[k].query
        /\ Len(sections) = Len(businesses)
        /\ \A k \in 1..Len(sections) : sections[k].index = k
        /\ \A k \in (1..Len(businesses)) \ Succeeded :
              \E n \in 1..Len(lines) :
                  /\ lines[n].kind = "status"
                  /\ lines[n].index = k
                  /\ lines[n].error = businesses[k].error
        /\ lines[Len(lines)].kind = "notes"

(* C14: for every list of records that lookup_business can produce, failed   *)
(* records and successful records without rating or without rating count     *)
(* included, write_markdown_output runs to its end and the report has the    *)
(* summary counts (total, successful, failed), one overview row and one       *)
(* detail section per record, in list order, and shows every failed record   *)
(* with its error.                                                           *)
C14_ReportForEveryList == pc = "written" => ReportComplete

\* the part of C14 that the code keeps: the function always returns, and the
\* report is complete when every successful record has a rating count, with
\* or without a rating
C14_ReportWhenCountsPresent ==
    pc = "written" =>
        /\ IsSome(markdown)
        /\ markdown[1].error_logged <=>
              \E k \in Succeeded : businesses[k].user_ratings_total = None
        /\ ~markdown[1].error_logged => ReportComplete

\* a complete report of a batch with a failed record and a successful record
\* that has no rating
C14_CompleteWithoutRating ==
    /\ pc = "written"
    /\ ReportComplete
    /\ Succeeded # 1..Len(businesses)
    /\ \E k \in Succeeded : businesses[k].rating = None

=============================================================================
